---- MODULE Spec2Model ----
(***************************************************************************)
(* Model of src/functions/ProcessWaitlistEntries.js: an Azure Function     *)
(* that reads a waitlist from a Google Sheet, sends a welcome email to     *)
(* every row not yet marked, and marks each row after its email was sent.  *)
(*                                                                         *)
(* The sheet is a sequence of rows.  JavaScript indexes rows from 0, TLA+  *)
(* sequences from 1: rows[i] of the source is rows[i + 1] here, and        *)
(* rowIndex keeps the source's 0-based value.  Every row carries a ghost   *)
(* field id that the program never reads; it names the row across inserts  *)
(* and removals so that properties can speak of "the same row".            *)
(***************************************************************************)
EXTENDS Integers, Sequences, FiniteSets, TLC

\* ---- bounds of the model ----
MaxRows == 3
MaxInvocations == 2
MaxEdits == 1

\* ---- values ----
\* the JavaScript value undefined (a cell the sheet has no value for, an
\* environment variable that is not set)
undefined == "<undefined>"

EmailValues == {"", "a@x.com", "b@x.com"}
EmailSentValues == {undefined, "TRUE", "no"}
FewEmailSentValues == {undefined, "true"}
WideEmailValues == {undefined, "", "a@x.com", "b@x.com"}
WideEmailSentValues == {undefined, "", "true", "tRuE", "no"}
FewEmailValues == {"", "a@x.com"}

RequiredConfig ==
    {"GOOGLE_SERVICE_ACCOUNT_EMAIL", "GOOGLE_PRIVATE_KEY", "SPREADSHEET_ID",
     "TENANT_ID", "CLIENT_ID", "CLIENT_SECRET"}

Procs == {1, 2}

\* JavaScript truthiness of a string-or-undefined value
Truthy(v) == v /= undefined /\ v /= ""

\* mutant of toLowerCase: the comparison of line 66 made case-sensitive
toLowerCaseOmitted(s) == s

\* String.prototype.toLowerCase on the cell values of the model
toLowerCase(s) ==
    CASE s = "TRUE" -> "true"
      [] s = "tRuE" -> "true"
      [] OTHER -> s

\* mutant of IsNewEntry: the EmailSent cell is not looked at
IsNewEntryIgnoringSent(email, emailSent) == Truthy(email)

\* the test of line 66, with the operands the loop reads at lines 63-64
IsNewEntry(email, emailSent) ==
    Truthy(email) /\ (~Truthy(emailSent) \/ toLowerCase(emailSent) /= "true")

\* the loop of lines 61-72: i runs over the rows, newUsers is pushed to
RECURSIVE FilterLoop(_, _, _)
FilterLoop(rows, i, newUsers) ==
    IF ~(i < Len(rows)) THEN newUsers
    ELSE LET row == rows[i + 1]
             email == row.Email
             emailSent == row.EmailSent
         IN  FilterLoop(rows, i + 1,
                 IF IsNewEntry(email, emailSent)
                 THEN Append(newUsers, [email |-> email, rowIndex |-> i])
                 ELSE newUsers)

\* mutant of getNewWaitlistEntries: the list is not started empty, so every
\* entry is pushed twice
getNewWaitlistEntriesTwice(rows) == FilterLoop(rows, 0, FilterLoop(rows, 0, <<>>))

\* what getNewWaitlistEntries returns for the rows sheet.getRows() loaded
getNewWaitlistEntries(rows) == FilterLoop(rows, 0, <<>>)

\* mutant of markUserAsEmailed: another word than "true" is written
markUserAsEmailedOtherWord(rows, rowIndex) ==
    [rows EXCEPT ![rowIndex + 1].EmailSent = "sent"]

\* mutant of markUserAsEmailed: the position is taken one row too far (the
\* header row counted); past the last row nothing is written
markUserAsEmailedOffByOne(rows, rowIndex) ==
    IF rowIndex + 2 <= Len(rows)
    THEN [rows EXCEPT ![rowIndex + 2].EmailSent = "true"]
    ELSE rows

\* lines 215-216 applied to the reloaded rows: the cell EmailSent of the row
\* at position rowIndex becomes "true"; every other row is saved untouched.
\* Only called with rowIndex < Len(rows).
markUserAsEmailed(rows, rowIndex) ==
    [rows EXCEPT ![rowIndex + 1].EmailSent = "true"]

\* mutant of HasNewUsers: the empty list passes the test
HasNewUsersAlways(newUsers) == Len(newUsers) >= 0

\* the test of line 17
HasNewUsers(newUsers) == Len(newUsers) > 0

\* getGraphClient: ClientSecretCredential's constructor rejects a missing
\* tenant id, client id or client secret; otherwise a client is returned
\* (no remote call is made until the first request).
getGraphClient(environment) ==
    IF {"TENANT_ID", "CLIENT_ID", "CLIENT_SECRET"} \subseteq environment
    THEN "client" ELSE "throw"

\* ---- responses ----
NoResponse == [status |-> 0, body |-> ""]
NoNewBody == "No new waitlist entries to process"
SuccessBody(n) == "Successfully sent emails to " \o ToString(n) \o " new waitlist entries"
ErrorBody(message) == "Error processing waitlist: " \o message
\* mutant of CatchResponse: the error is reported with the success status
CatchResponseStatusOk(message) == [status |-> 200, body |-> ErrorBody(message)]

\* the catch block of lines 36-42
CatchResponse(message) == [status |-> 500, body |-> ErrorBody(message)]

VARIABLES
    sheet,              \* the remote spreadsheet: Seq of [id, Email, EmailSent]
    env,                \* the configuration names that are set in process.env
    pc,                 \* per handler instance: "idle", "send", "mark", "done"
    inv,                \* per handler instance: number of its current invocation
    newWaitlistUsers,   \* per handler instance: the list read at line 15
    idx,                \* per handler instance: position of the for-of loop (0-based)
    graphClient,        \* per handler instance: TRUE once getGraphClient returned
    res,                \* per handler instance: context.res
    remoteCalls,        \* ghost: remote calls made so far in the invocation
    failed,             \* ghost: the calls that threw in the invocation
    loadedRows,         \* per handler instance: the rows loaded at line 57
    readAfter,          \* ghost: invocations that had ended when this one read
    log,                \* ghost: completed sends and mark-writes, in order
    invCount,           \* number of invocations started
    lastRes,            \* ghost, per handler instance: response of its previous invocation
    nextId,             \* ghost: next fresh row id
    edits               \* number of edits made by the other editor

vars == <<sheet, env, pc, inv, newWaitlistUsers, idx, graphClient, res,
          remoteCalls, failed, loadedRows, readAfter, log, invCount, lastRes,
          nextId, edits>>

\* ---- initial states ----
RECURSIVE SeqsUpTo(_, _)
SeqsUpTo(S, n) ==
    IF n = 0 THEN {<<>>}
    ELSE LET shorter == SeqsUpTo(S, n - 1)
         IN  shorter \cup {Append(s, x) : s \in {t \in shorter : Len(t) = n - 1}, x \in S}

\* number the rows of a sheet 1..n
WithIds(cells) ==
    [k \in 1..Len(cells) |->
        [id |-> k, Email |-> cells[k][1], EmailSent |-> cells[k][2]]]

InitWith(emails, emailSents, environments) ==
    /\ \E cells \in SeqsUpTo(emails \X emailSents, MaxRows) :
          /\ sheet = WithIds(cells)
          /\ nextId = Len(cells) + 1
    /\ env \in environments
    /\ pc = [p \in Procs |-> "idle"]
    /\ inv = [p \in Procs |-> 0]
    /\ newWaitlistUsers = [p \in Procs |-> <<>>]
    /\ idx = [p \in Procs |-> 0]
    /\ graphClient = [p \in Procs |-> FALSE]
    /\ res = [p \in Procs |-> NoResponse]
    /\ remoteCalls = [p \in Procs |-> 0]
    /\ failed = [p \in Procs |-> {}]
    /\ loadedRows = [p \in Procs |-> <<>>]
    /\ readAfter = [p \in Procs |-> {}]
    /\ log = <<>>
    /\ invCount = 0
    /\ lastRes = [p \in Procs |-> NoResponse]
    /\ edits = 0

Init == InitWith(EmailValues, EmailSentValues, {RequiredConfig})

\* ---- the handler (module.exports, lines 12-43) ----
\* The handler runs between awaits without interleaving; each action below is
\* one remote interaction together with the synchronous code that follows it
\* up to the next await.  A remote call either returns or throws (ok, drawn
\* from the outcomes the specification allows).

\* Lines 15-18 (and 26-35 when the list is empty): getNewWaitlistEntries,
\* then the test of line 17 and getGraphClient.  The result is the local
\* state of the invocation after the step.
ReadStep(rows, environment, ok) ==
    IF "GOOGLE_PRIVATE_KEY" \notin environment
    THEN \* line 49: undefined.replace throws before anything is requested
         [calls |-> 0, threw |-> {"read"}, users |-> <<>>, client |-> FALSE, pc |-> "done",
          res |-> CatchResponse("Cannot read properties of undefined (reading 'replace')")]
    ELSE IF ~ok \/ "GOOGLE_SERVICE_ACCOUNT_EMAIL" \notin environment
               \/ "SPREADSHEET_ID" \notin environment
    THEN \* line 54 or 57: the request is made and rejected
         [calls |-> 1, threw |-> {"read"}, users |-> <<>>, client |-> FALSE, pc |-> "done",
          res |-> CatchResponse("sheet read failed")]
    ELSE LET newUsers == getNewWaitlistEntries(rows)
         IN  IF HasNewUsers(newUsers)
             THEN IF getGraphClient(environment) = "throw"
                  THEN [calls |-> 2, threw |-> {"client"}, users |-> newUsers, client |-> FALSE,
                        pc |-> "done",
                        res |-> CatchResponse("tenantId, clientId, and clientSecret are required")]
                  ELSE [calls |-> 2, threw |-> {}, users |-> newUsers, client |-> TRUE,
                        pc |-> "send", res |-> NoResponse]
             ELSE [calls |-> 2, threw |-> {}, users |-> newUsers, client |-> FALSE, pc |-> "done",
                   res |-> [status |-> 200, body |-> NoNewBody]]

\* the invocations that have ended
Ended == {inv[q] : q \in {r \in Procs : pc[r] = "done"}}

HandlerRead(p, Outcomes) ==
    /\ pc[p] \in {"idle", "done"}
    /\ invCount < MaxInvocations
    /\ \E ok \in Outcomes :
          LET r == ReadStep(sheet, env, ok)
          IN  /\ newWaitlistUsers' = [newWaitlistUsers EXCEPT ![p] = r.users]
              /\ graphClient' = [graphClient EXCEPT ![p] = r.client]
              /\ remoteCalls' = [remoteCalls EXCEPT ![p] = r.calls]
              /\ failed' = [failed EXCEPT ![p] = r.threw]
              /\ res' = [res EXCEPT ![p] = r.res]
              /\ pc' = [pc EXCEPT ![p] = r.pc]
              /\ loadedRows' = [loadedRows EXCEPT ![p] =
                                   IF r.calls = 2 THEN sheet ELSE <<>>]
    /\ invCount' = invCount + 1
    /\ inv' = [inv EXCEPT ![p] = invCount + 1]
    /\ idx' = [idx EXCEPT ![p] = 0]
    /\ lastRes' = [lastRes EXCEPT ![p] = res[p]]
    /\ readAfter' = [readAfter EXCEPT ![p] = Ended]
    /\ UNCHANGED <<sheet, env, log, nextId, edits>>

\* Line 21: sendSpikeWelcomeEmail posts one message to the address of the
\* current entry; the post returns or throws.
sendSpikeWelcomeEmail(p, user) ==
    [inv |-> inv[p], op |-> "send", rowIndex |-> user.rowIndex, email |-> user.email,
     id |-> loadedRows[p][user.rowIndex + 1].id]

HandlerSend(p, Outcomes) ==
    /\ pc[p] = "send"
    /\ LET user == newWaitlistUsers[p][idx[p] + 1]
       IN  \E ok \in Outcomes :
             IF ok
             THEN /\ log' = Append(log, sendSpikeWelcomeEmail(p, user))
                  /\ pc' = [pc EXCEPT ![p] = "mark"]
                  /\ UNCHANGED <<res, failed>>
             ELSE /\ res' = [res EXCEPT ![p] = CatchResponse("mail send failed")]
                  /\ failed' = [failed EXCEPT ![p] = @ \cup {"send"}]
                  /\ pc' = [pc EXCEPT ![p] = "done"]
                  /\ UNCHANGED log
    /\ remoteCalls' = [remoteCalls EXCEPT ![p] = @ + 1]
    /\ UNCHANGED <<sheet, env, inv, newWaitlistUsers, idx, graphClient, loadedRows,
                   readAfter, invCount, lastRes, nextId, edits>>

\* Lines 22-24 and, after the last entry, 26-29: markUserAsEmailed reloads the
\* rows and writes the row at position rowIndex; then the loop advances.
\* The reload and the save are one step: the save writes the cells of exactly
\* the position that was reloaded.
MarkStep(rows, environment, rowIndex, ok) ==
    IF "GOOGLE_PRIVATE_KEY" \notin environment
    THEN [calls |-> 0, wrote |-> FALSE,
          message |-> "Cannot read properties of undefined (reading 'replace')"]
    ELSE IF ~ok
    THEN [calls |-> 1, wrote |-> FALSE, message |-> "sheet write failed"]
    ELSE IF ~(rowIndex < Len(rows))
    THEN \* line 215: rows[rowIndex] is undefined
         [calls |-> 2, wrote |-> FALSE,
          message |-> "Cannot read properties of undefined (reading 'set')"]
    ELSE [calls |-> 3, wrote |-> TRUE, message |-> ""]

HandlerMark(p, Outcomes) ==
    /\ pc[p] = "mark"
    /\ LET user == newWaitlistUsers[p][idx[p] + 1]
       IN  \E ok \in Outcomes :
             LET m == MarkStep(sheet, env, user.rowIndex, ok)
             IN  /\ remoteCalls' = [remoteCalls EXCEPT ![p] = @ + m.calls]
                 /\ IF m.wrote
                    THEN /\ sheet' = markUserAsEmailed(sheet, user.rowIndex)
                         /\ log' = Append(log, [inv |-> inv[p], op |-> "mark",
                                                rowIndex |-> user.rowIndex,
                                                email |-> sheet[user.rowIndex + 1].Email,
                                                id |-> sheet[user.rowIndex + 1].id])
                         /\ idx' = [idx EXCEPT ![p] = @ + 1]
                         /\ IF idx[p] + 1 < Len(newWaitlistUsers[p])
                            THEN /\ pc' = [pc EXCEPT ![p] = "send"]
                                 /\ UNCHANGED res
                            ELSE /\ pc' = [pc EXCEPT ![p] = "done"]
                                 /\ res' = [res EXCEPT ![p] =
                                        [status |-> 200,
                                         body |-> SuccessBody(Len(newWaitlistUsers[p]))]]
                         /\ UNCHANGED failed
                    ELSE /\ res' = [res EXCEPT ![p] = CatchResponse(m.message)]
                         /\ failed' = [failed EXCEPT ![p] = @ \cup {"mark"}]
                         /\ pc' = [pc EXCEPT ![p] = "done"]
                         /\ UNCHANGED <<sheet, log, idx>>
    /\ UNCHANGED <<env, inv, newWaitlistUsers, graphClient, loadedRows, readAfter,
                   invCount, lastRes, nextId, edits>>

\* ---- another editor of the sheet (a signup form, a person) ----
InsertRow ==
    /\ edits < MaxEdits
    /\ Len(sheet) < MaxRows
    /\ \E pos \in 0..Len(sheet), email \in EmailValues \ {""} :
          sheet' = SubSeq(sheet, 1, pos)
                     \o <<[id |-> nextId, Email |-> email, EmailSent |-> undefined]>>
                     \o SubSeq(sheet, pos + 1, Len(sheet))
    /\ nextId' = nextId + 1
    /\ edits' = edits + 1
    /\ UNCHANGED <<env, pc, inv, newWaitlistUsers, idx, graphClient, res, remoteCalls,
                   failed, loadedRows, readAfter, log, invCount, lastRes>>

RemoveRow ==
    /\ edits < MaxEdits
    /\ \E pos \in 1..Len(sheet) :
          sheet' = SubSeq(sheet, 1, pos - 1) \o SubSeq(sheet, pos + 1, Len(sheet))
    /\ edits' = edits + 1
    /\ UNCHANGED <<env, pc, inv, newWaitlistUsers, idx, graphClient, res, remoteCalls,
                   failed, loadedRows, readAfter, log, invCount, lastRes, nextId>>

\* ---- specifications ----
AnyOutcome == BOOLEAN
NoFailure == {TRUE}

\* Spec: one handler instance, invoked again and again (invocations never
\* overlap); any remote call may fail; nobody else edits the sheet.
Next ==
    \/ HandlerRead(1, AnyOutcome)
    \/ HandlerSend(1, AnyOutcome)
    \/ HandlerMark(1, AnyOutcome)
Spec == Init /\ [][Next]_vars

\* SpecFilter: the reader applied to sheets over a wide range of cell values.
InitFilter == InitWith(WideEmailValues, WideEmailSentValues, {RequiredConfig})
NextFilter == HandlerRead(1, AnyOutcome)
SpecFilter == InitFilter /\ [][NextFilter]_vars

\* SpecEnv: as Spec, started with any subset of the configuration set.
InitEnv == InitWith(EmailValues, FewEmailSentValues, SUBSET RequiredConfig)
NextEnv ==
    \/ HandlerRead(1, AnyOutcome)
    \/ HandlerSend(1, AnyOutcome)
    \/ HandlerMark(1, AnyOutcome)
SpecEnv == InitEnv /\ [][NextEnv]_vars

\* SpecEdit: as Spec, with another editor inserting and removing rows at any
\* moment, also between the handler's steps.
InitEdit == InitWith(EmailValues, FewEmailSentValues, {RequiredConfig})
NextEdit ==
    \/ HandlerRead(1, AnyOutcome)
    \/ HandlerSend(1, AnyOutcome)
    \/ HandlerMark(1, AnyOutcome)
    \/ InsertRow
    \/ RemoveRow
SpecEdit == InitEdit /\ [][NextEdit]_vars

\* SpecConc: two handler instances, each invoked once, whose invocations may
\* overlap in any way; no call fails and nobody else edits the sheet.
InitConc == InitWith(FewEmailValues, FewEmailSentValues, {RequiredConfig})
NextConc ==
    \E p \in Procs :
        \/ pc[p] = "idle" /\ HandlerRead(p, NoFailure)
        \/ HandlerSend(p, NoFailure)
        \/ HandlerMark(p, NoFailure)
SpecConc == InitConc /\ [][NextConc]_vars

\* ---- vocabulary of the properties ----
\* the completed sends and mark-writes of invocation i, in order
EventsOf(i) == SelectSeq(log, LAMBDA e : e.inv = i)
SendsFor(events, rowIndex) ==
    {k \in DOMAIN events : events[k].op = "send" /\ events[k].rowIndex = rowIndex}
MarksFor(events, rowIndex) ==
    {k \in DOMAIN events : events[k].op = "mark" /\ events[k].rowIndex = rowIndex}
\* the rows (by id) that invocation i emailed
EmailedBy(i) == {log[k].id : k \in {j \in DOMAIN log : log[j].inv = i /\ log[j].op = "send"}}
\* the read of the current invocation of p returned its rows
ReadReturned(p) == pc[p] /= "idle" /\ "read" \notin failed[p]
\* the cell values that equal "true" when case is ignored
EqualsTrueIgnoringCase(s) == s \in {"true", "TRUE", "tRuE", "True"}
\* a row the specification calls eligible
EligibleRow(row) ==
    /\ row.Email /= undefined
    /\ row.Email /= ""
    /\ \/ row.EmailSent = undefined
       \/ row.EmailSent = ""
       \/ ~EqualsTrueIgnoringCase(row.EmailSent)
EligibleIndexes(rows) == {i \in 0..(Len(rows) - 1) : EligibleRow(rows[i + 1])}
SuccessText(n) ==
    CASE n = 1 -> "Successfully sent emails to 1 new waitlist entries"
      [] n = 2 -> "Successfully sent emails to 2 new waitlist entries"
      [] n = 3 -> "Successfully sent emails to 3 new waitlist entries"
      [] n = 4 -> "Successfully sent emails to 4 new waitlist entries"
      [] OTHER -> "?"
NoNewResponse == [status |-> 200, body |-> "No new waitlist entries to process"]

\* C1: getNewWaitlistEntries returns exactly the rows whose Email is non-empty
\* and whose EmailSent is absent, empty or not "true" ignoring case, each as
\* {email, rowIndex} with rowIndex its position in the loaded rows, in row order.
C1_ReaderReturnsExactlyEligibleRows ==
    ReadReturned(1) =>
        LET r == newWaitlistUsers[1]
            rows == loadedRows[1]
        IN  /\ rows = sheet
            /\ Len(r) = Cardinality(EligibleIndexes(rows))
            /\ \A k \in 1..Len(r) :
                  /\ DOMAIN r[k] = {"email", "rowIndex"}
                  /\ r[k].rowIndex \in EligibleIndexes(rows)
                  /\ r[k].email = rows[r[k].rowIndex + 1].Email
            /\ \A k \in 1..(Len(r) - 1) : r[k].rowIndex < r[k + 1].rowIndex

\* a read that returned two rows and left out a row marked in another case
\* than "true", with a returned row whose EmailSent is a word other than true
C1_Witness ==
    /\ ReadReturned(1)
    /\ Len(newWaitlistUsers[1]) = 2
    /\ Len(sheet) = 3
    /\ \E k \in 1..3 : sheet[k].Email = "a@x.com" /\ sheet[k].EmailSent = "tRuE"
    /\ \E k \in 1..2 : sheet[newWaitlistUsers[1][k].rowIndex + 1].EmailSent = "no"

\* C2: within one invocation every processed row has exactly one send (to its
\* address) and exactly one mark-write (of its index), the send before the
\* mark-write; no row has more than one of either, and no mark-write is without
\* an earlier send for the same row in the same invocation.
C2_OneSendThenOneMarkPerRow ==
    LET users == newWaitlistUsers[1]
        events == EventsOf(inv[1])
    IN  /\ \A j \in 1..Len(users) :
              LET sends == SendsFor(events, users[j].rowIndex)
                  marks == MarksFor(events, users[j].rowIndex)
              IN  /\ Cardinality(sends) <= 1
                  /\ Cardinality(marks) <= 1
                  /\ \A k \in sends : events[k].email = users[j].email
                  /\ j <= idx[1] =>
                        /\ Cardinality(sends) = 1
                        /\ Cardinality(marks) = 1
                        /\ \A k \in sends, m \in marks : k < m
        /\ \A m \in DOMAIN events :
              events[m].op = "mark" =>
                  /\ m > 1
                  /\ events[m - 1].op = "send"
                  /\ events[m - 1].rowIndex = events[m].rowIndex
        /\ \A k \in DOMAIN events :
              \E j \in 1..Len(users) : users[j].rowIndex = events[k].rowIndex

\* an invocation that has processed two rows
C2_Witness ==
    /\ idx[1] = 2
    /\ Len(EventsOf(inv[1])) = 4
    /\ newWaitlistUsers[1][1].email /= newWaitlistUsers[1][2].email

\* C3: when a send or a mark-write fails at the k-th eligible row, the handler
\* has stopped with status 500 and the failure's message; the rows before the
\* k-th are marked "true"; the rows after the k-th have no send and no
\* mark-write in the invocation and are as eligible as they were.
C3_FailureStopsTheLoop ==
    (pc[1] = "done" /\ failed[1] \cap {"send", "mark"} /= {}) =>
        LET users == newWaitlistUsers[1]
            events == EventsOf(inv[1])
            k == idx[1] + 1
        IN  /\ res[1].status = 500
            /\ "send" \in failed[1] =>
                  res[1].body = "Error processing waitlist: mail send failed"
            /\ "mark" \in failed[1] =>
                  res[1].body = "Error processing waitlist: sheet write failed"
            /\ \A j \in 1..(k - 1) : sheet[users[j].rowIndex + 1].EmailSent = "true"
            /\ \A j \in (k + 1)..Len(users) :
                  /\ SendsFor(events, users[j].rowIndex) = {}
                  /\ MarksFor(events, users[j].rowIndex) = {}
                  /\ EligibleRow(sheet[users[j].rowIndex + 1])
            /\ MarksFor(events, users[k].rowIndex) = {}

\* a failure at the second of three eligible rows
C3_Witness ==
    /\ pc[1] = "done"
    /\ failed[1] = {"mark"}
    /\ idx[1] = 1
    /\ Len(newWaitlistUsers[1]) = 3

\* C4: over any sequence of invocations that do not overlap, aborted ones
\* included, no row is sent more than one welcome email.
C4_AtMostOneEmailPerRow ==
    \A j, k \in DOMAIN log :
        (log[j].op = "send" /\ log[k].op = "send" /\ log[j].id = log[k].id) => j = k

\* C5: after an invocation that ended with status 200 the sheet has no
\* eligible row, and the invocation that follows it, once its read returned,
\* has an empty list, no send, no mark-write and the response 200 "No new
\* waitlist entries to process".
C5_RerunAfterSuccessFindsNothing ==
    /\ (pc[1] = "done" /\ res[1].status = 200) => EligibleIndexes(sheet) = {}
    /\ (lastRes[1].status = 200 /\ ReadReturned(1)) =>
          /\ newWaitlistUsers[1] = <<>>
          /\ EventsOf(inv[1]) = <<>>
          /\ pc[1] = "done"
          /\ res[1] = NoNewResponse

\* a second invocation that ended after a first one that emailed two rows
C5_Witness ==
    /\ lastRes[1] = [status |-> 200, body |-> SuccessText(2)]
    /\ ReadReturned(1)
    /\ pc[1] = "done"
    /\ Len(log) = 4

\* C6: when the read returns no eligible row the handler responds 200 "No new
\* waitlist entries to process", has made no send and no mark-write (its only
\* remote calls are the two of the read) and has not built the mail client.
C6_EmptyListDoesNothing ==
    (ReadReturned(1) /\ EligibleIndexes(loadedRows[1]) = {}) =>
        /\ pc[1] = "done"
        /\ EventsOf(inv[1]) = <<>>
        /\ res[1] = NoNewResponse
        /\ ~graphClient[1]
        /\ remoteCalls[1] = 2

\* a sheet of three rows, none eligible, read by the first invocation
C6_Witness ==
    /\ ReadReturned(1)
    /\ inv[1] = 1
    /\ Len(sheet) = 3
    /\ newWaitlistUsers[1] = <<>>
    /\ \E k \in 1..3 : sheet[k].Email = ""
    /\ \E k \in 1..3 : sheet[k].EmailSent = "TRUE"

\* C7: an invocation has a response exactly when it has ended, and its status
\* is 200 or 500; it is 200 "Successfully sent emails to N new waitlist
\* entries" only if N >= 1 rows were read as eligible and each of the N has its
\* send and its mark-write in the invocation and is marked; it is 500 whenever
\* a read, a send or a mark-write failed.
C7_SingleResponseOfTheRightStatus ==
    /\ (pc[1] = "done") <=> (res[1] /= NoResponse)
    /\ pc[1] = "done" => res[1].status \in {200, 500}
    /\ failed[1] /= {} => (pc[1] = "done" /\ res[1].status = 500)
    /\ (res[1].status = 200 /\ res[1] /= NoNewResponse) =>
          LET users == newWaitlistUsers[1]
              events == EventsOf(inv[1])
              N == Len(users)
          IN  /\ N >= 1
              /\ N = Cardinality(EligibleIndexes(loadedRows[1]))
              /\ res[1].body = SuccessText(N)
              /\ failed[1] = {}
              /\ \A j \in 1..N :
                    /\ Cardinality(SendsFor(events, users[j].rowIndex)) = 1
                    /\ Cardinality(MarksFor(events, users[j].rowIndex)) = 1
                    /\ sheet[users[j].rowIndex + 1].EmailSent = "true"

\* an invocation that ended with "Successfully sent emails to 2 ..."
C7_Witness ==
    /\ pc[1] = "done"
    /\ res[1] = [status |-> 200, body |-> SuccessText(2)]

\* C8: when one of the six configuration values is not set, the invocation
\* ends with an error response, never with 200, and has made no remote call.
C8_MissingConfigFailsFast ==
    (env /= RequiredConfig /\ pc[1] = "done") =>
        /\ res[1].status /= 200
        /\ remoteCalls[1] = 0

\* C9: every mark-write sets EmailSent of the row whose address the same
\* invocation has just emailed, whatever another editor does in between.
C9_MarkWritesTheEmailedRow ==
    \A m \in DOMAIN log :
        log[m].op = "mark" =>
            \E k \in 1..(m - 1) :
                /\ log[k].op = "send"
                /\ log[k].inv = log[m].inv
                /\ log[k].id = log[m].id
                /\ \A j \in (k + 1)..(m - 1) : log[j].inv /= log[m].inv

\* C10: with no failing call and no other editor, an invocation that read the
\* sheet after another invocation had made all its mark-writes emails no row
\* that the other emailed.
C10_ReadAfterMarksNeverReEmails ==
    \A p \in Procs :
        \A i \in readAfter[p] :
            i /= inv[p] => EmailedBy(i) \cap EmailedBy(inv[p]) = {}

\* an invocation that read after another had emailed and marked two rows
C10_Witness ==
    \E p \in Procs :
        /\ pc[p] = "done"
        /\ \E i \in readAfter[p] : i /= inv[p] /\ Cardinality(EmailedBy(i)) = 2

\* without that order the guarantee is lost: two overlapping invocations
\* that emailed the same row
C10_OverlapEmailsTwice ==
    \E i, j \in 1..invCount : i /= j /\ EmailedBy(i) \cap EmailedBy(j) /= {}

====
